---- MODULE Spec2Model ----
(***************************************************************************)
(* Model of src/app.py: the Brazilian-locale numeric normalizer            *)
(* (converter_valor_brasileiro) and the two HTML row extractors            *)
(* (processar_faturamento, processar_pedidos).                             *)
(*                                                                         *)
(* A Python str is a sequence of one-character strings.  Two characters    *)
(* stand for classes the code treats specially:                            *)
(*   "U+0663"  ARABIC-INDIC DIGIT THREE: a non-ASCII decimal digit, which  *)
(*             the str pattern \d matches and float() accepts;             *)
(*   "U+D800"  a lone surrogate (json.loads accepts the escape \ud800),    *)
(*             which print() cannot encode to UTF-8: UnicodeEncodeError.   *)
(* Python indexes from 0 and TLA+ from 1: Cell(cells, k) is cells[k].      *)
(***************************************************************************)
EXTENDS Integers, Sequences, FiniteSets, TLC

VARIABLES op, pc, valor_str, ret, request, doc, idx,
          faturamento, pedidos, linhas_processadas, linhas_ignoradas,
          result, propagated

vars == <<op, pc, valor_str, ret, request, doc, idx,
          faturamento, pedidos, linhas_processadas, linhas_ignoradas,
          result, propagated>>

(* ------------------------------ bounds -------------------------------- *)

\* longest input string handed to converter_valor_brasileiro
MaxLen == 4

\* most table rows in one document
MaxRows == 2

(* ----------------------------- characters ----------------------------- *)

Surrogate == "U+D800"

ArabicThree == "U+0663"

Alphabet == {"0", "1", ".", ",", " ", "R", ArabicThree, Surrogate}

\* str.isspace(): what str.strip() removes at both ends
IsSpace(c) == c = " "

\* the regex class \d of a str pattern: every Unicode decimal digit
IsDigit(c) == c \in {"0", "1", "2", "3", "4", "5", "6", "7", "8", "9", ArabicThree}

\* the decimal value float() gives a digit
DigitValue(c) ==
    CASE c = "0" -> 0 [] c = "1" -> 1 [] c = "2" -> 2 [] c = "3" -> 3
      [] c = "4" -> 4 [] c = "5" -> 5 [] c = "6" -> 6 [] c = "7" -> 7
      [] c = "8" -> 8 [] c = "9" -> 9 [] c = ArabicThree -> 3 [] OTHER -> 0

(* ------------------------------ str methods --------------------------- *)

Min(a, b) == IF a < b THEN a ELSE b

Contains(s, c) == \E i \in 1..Len(s) : s[i] = c

RECURSIVE lstrip(_)
lstrip(s) == IF s # <<>> /\ IsSpace(Head(s)) THEN lstrip(Tail(s)) ELSE s

RECURSIVE rstrip(_)
rstrip(s) ==
    IF s # <<>> /\ IsSpace(s[Len(s)]) THEN rstrip(SubSeq(s, 1, Len(s) - 1)) ELSE s

\* str.strip()
strip(s) == rstrip(lstrip(s))

\* re.sub(r'[^\d,.]', '', s)
KeepChar(c) == IsDigit(c) \/ c = "," \/ c = "."

RECURSIVE re_sub(_)
re_sub(s) ==
    IF s = <<>> THEN <<>>
    ELSE IF KeepChar(Head(s)) THEN <<Head(s)>> \o re_sub(Tail(s))
    ELSE re_sub(Tail(s))

\* s.replace(old, new) for a one-character old; new is a str
RECURSIVE replace(_, _, _)
replace(s, old, new) ==
    IF s = <<>> THEN <<>>
    ELSE (IF Head(s) = old THEN new ELSE <<Head(s)>>) \o replace(Tail(s), old, new)

\* s.split(sep) for a one-character sep: always at least one part
RECURSIVE split(_, _)
split(s, sep) ==
    IF ~Contains(s, sep) THEN <<s>>
    ELSE LET i == CHOOSE k \in 1..Len(s) :
                      s[k] = sep /\ \A j \in 1..(k - 1) : s[j] # sep
         IN  <<SubSeq(s, 1, i - 1)>> \o split(SubSeq(s, i + 1, Len(s)), sep)

\* s[:n]
Prefix(s, n) == SubSeq(s, 1, Min(n, Len(s)))

\* float(s) returns (rather than raising ValueError): after stripping
\* whitespace, decimal digits with at most one '.', and at least one digit
FloatParses(s) ==
    LET t == strip(s) IN
    /\ \A i \in 1..Len(t) : IsDigit(t[i]) \/ t[i] = "."
    /\ Cardinality({i \in 1..Len(t) : t[i] = "."}) <= 1
    /\ \E i \in 1..Len(t) : IsDigit(t[i])

\* float(s) > 0, for s with FloatParses(s): no sign can be present
FloatPositive(s) == \E i \in 1..Len(s) : DigitValue(s[i]) > 0

\* print(s) to a UTF-8 stdout raises UnicodeEncodeError on a lone surrogate
HasSurrogate(s) == Contains(s, Surrogate)

(* ---------------------- converter_valor_brasileiro -------------------- *)

Returned(v) == [raised |-> FALSE, value |-> v]

Raised(kind) == [raised |-> TRUE, value |-> <<>>, kind |-> kind]

Zero == <<"0">>

\* ComVirgula with the two replacements in the other order
ComVirgula_Swapped(valor_limpo) ==
    replace(replace(valor_limpo, ",", <<".">>), ".", <<>>)

\* line 35-37: the branch taken when ',' occurs
ComVirgula(valor_limpo) == replace(replace(valor_limpo, ".", <<>>), ",", <<".">>)

\* SemVirgula without its decimal case: every '.' is a thousands separator
SemVirgula_AlwaysThousands(valor_limpo) == replace(valor_limpo, ".", <<>>)

\* SemVirgula taking any two parts for a decimal, whatever the second's length
SemVirgula_AnyDecimal(valor_limpo) ==
    IF Len(split(valor_limpo, ".")) = 2
    THEN valor_limpo
    ELSE replace(valor_limpo, ".", <<>>)

\* line 40-47: the branch taken when no ',' occurs
SemVirgula(valor_limpo) ==
    LET partes == split(valor_limpo, ".") IN
    IF Len(partes) = 2 /\ Len(partes[2]) = 2
    THEN valor_limpo
    ELSE replace(valor_limpo, ".", <<>>)

\* line 54-56: the except branch prints valor_str, then returns "0"
ConverterExcept(valor_str_) ==
    IF HasSurrogate(valor_str_) THEN Raised("UnicodeEncodeError") ELSE Returned(Zero)

converter_valor_brasileiro(valor_str_) ==
    LET valor_limpo == re_sub(strip(valor_str_)) IN
    IF valor_limpo = <<>> THEN Returned(Zero)
    ELSE LET valor_final == IF Contains(valor_limpo, ",")
                            THEN ComVirgula(valor_limpo)
                            ELSE SemVirgula(valor_limpo)
         IN  IF FloatParses(valor_final)
             THEN Returned(valor_final)
             ELSE ConverterExcept(valor_str_)

(* ------------------------------ exceptions ---------------------------- *)

\* the classes an exception of this kind is an instance of
Bases(kind) ==
    CASE kind = "UnicodeEncodeError" ->
             {"UnicodeEncodeError", "UnicodeError", "ValueError", "Exception"}
      [] kind = "UnicodeDecodeError" ->
             {"UnicodeDecodeError", "UnicodeError", "ValueError", "Exception"}
      [] kind = "ValueError" -> {"ValueError", "Exception"}
      [] kind = "TypeError" -> {"TypeError", "Exception"}
      [] kind = "ParserError" -> {"ParserError", "Exception"}
      [] OTHER -> {kind, "Exception"}

\* except <classes>: catches an exception of this kind
Catches(classes, kind) == Bases(kind) \cap classes # {}

(* ------------------------------- documents ---------------------------- *)

\* cells[k] of the source
Cell(cells, k) == cells[k + 1]

Destac == <<"d", "e", "s", "t", "a", "c">>

IsSubstring(sub, s) ==
    \E k \in 0..(Len(s) - Len(sub)) : SubSeq(s, k + 1, k + Len(sub)) = sub

\* any('destac' in str(c) for c in classes)
Marked(classes) == \E i \in 1..Len(classes) : IsSubstring(Destac, classes[i])

Destaca == Destac \o <<"a">>

Destacb == Destac \o <<"b">>

Normal == <<"n", "o", "r", "m", "a", "l">>

\* the class lists of a <tr>: the one of a well-formed row, none, an unmarked
\* one, and one whose marked token is not the first
ClassChoices == {<<Destaca>>, <<>>, <<Normal>>, <<Normal, Destacb>>}

Acme == <<"A", "c", "m", "e">>

AcmeSur == <<"A", Surrogate>>

Ana == <<"A", "n", "a">>

AnaSur == <<"A", "n", Surrogate>>

\* "1.620,00"
Total1620 == <<"1", ".", "6", "2", "0", ",", "0", "0">>

\* "0,00"
TotalZero == <<"0", ",", "0", "0">>

\* "R$"
TotalGarbage == <<"R", "$">>

\* the text of a cell no test varies: it names its column
DefaultText(k) == <<"c", ToString(k)>>

WithClasses(tr, classes) == [tr EXCEPT !.classes = classes]

WithCell(tr, k, text) == [tr EXCEPT !.cells[k + 1] = text]

WithCount(tr, n) ==
    [tr EXCEPT !.cells = [k \in 1..n |-> IF k <= Len(tr.cells)
                                          THEN tr.cells[k]
                                          ELSE DefaultText(k - 1)]]

\* a well-formed billing row: 16 cells, party in 1, total in 9, seller in 11
FatGood ==
    [classes |-> <<Destaca>>,
     cells |-> [k \in 1..16 |-> CASE k = 2 -> Acme
                                  [] k = 10 -> Total1620
                                  [] k = 12 -> Ana
                                  [] OTHER -> DefaultText(k - 1)]]

\* billing rows: the well-formed row with one thing changed
FatRows ==
    {WithClasses(FatGood, c) : c \in ClassChoices}
    \cup {WithCount(FatGood, n) : n \in {15, 17}}
    \cup {WithCell(FatGood, 1, t) : t \in {<<>>, AcmeSur}}
    \cup {WithCell(FatGood, 9, t) : t \in {<<>>, TotalGarbage, TotalZero}}
    \cup {WithCell(FatGood, 11, AnaSur)}

\* a well-formed order row: 12 cells, order number in 2, client in 4,
\* seller in 6, total in 10
PedGood ==
    [classes |-> <<Destaca>>,
     cells |-> [k \in 1..12 |-> CASE k = 5 -> Acme
                                  [] k = 7 -> Ana
                                  [] k = 11 -> Total1620
                                  [] OTHER -> DefaultText(k - 1)]]

PedBase ==
    {WithClasses(PedGood, c) : c \in ClassChoices}
    \cup {WithCount(PedGood, n) : n \in {11, 13}}
    \cup {WithCell(PedGood, 0, <<>>), WithCell(PedGood, 1, <<>>)}
    \cup {WithCell(PedGood, 2, t) : t \in {<<>>, <<"7", Surrogate>>}}
    \cup {WithCell(PedGood, 4, <<>>)}
    \cup {WithCell(PedGood, 10, t) : t \in {<<>>, TotalGarbage, TotalZero}}

\* order rows: the well-formed row with one thing changed, and the seller's
\* name with or without a lone surrogate
PedRows == PedBase \cup {WithCell(tr, 6, AnaSur) : tr \in PedBase}

\* the sequences over S of length at most n
SeqsUpTo(S, n) == UNION {[1..k -> S] : k \in 0..n}

Strings == SeqsUpTo(Alphabet, MaxLen)

\* A request body, by what lines 78-88 / 175-186 make of it:
\*   bad_utf8      body.decode raises
\*   empty         "" : json.loads raises, html = ""
\*   raw_html      an HTML text: json.loads raises, html = body_str
\*   json_html     {"html_email": "<html>"}
\*   json_missing  {} : html = ""
\*   json_null     {"html_email": null} : html = None
\*   json_number   {"html_email": 123} : html = 123
\*   json_other    [1] : payload.get raises, html = body_str (no <tr> in it)
\* rows is the sequence of <tr> elements the HTML holds, in document order.
BodyKinds ==
    {"bad_utf8", "empty", "raw_html", "json_html", "json_missing", "json_null",
     "json_number", "json_other"}

Requests(Rows) ==
    {[kind |-> k, rows |-> <<>>] : k \in BodyKinds}
    \cup {[kind |-> k, rows |-> d] :
              k \in {"raw_html", "json_html"}, d \in SeqsUpTo(Rows, MaxRows)}

\* the value of html after the envelope is opened
Html(req) ==
    CASE req.kind \in {"raw_html", "json_html", "json_other"} -> "str"
      [] req.kind \in {"empty", "json_missing"} -> "empty"
      [] req.kind = "json_null" -> "None"
      [] req.kind = "json_number" -> "int"

\* not html
Falsy(html) == html \in {"empty", "None"}

(* ------------------------- processar_faturamento ---------------------- *)

\* lines 121-132
FatItem(cells, total) ==
    ("Cod. Cli./For." :> Cell(cells, 0))
    @@ ("Cliente/Fornecedor" :> Cell(cells, 1))
    @@ ("Data" :> Cell(cells, 2))
    @@ ("Total Item" :> total)
    @@ ("Vendedor" :> Cell(cells, 11))
    @@ ("Ref. Produto" :> Cell(cells, 5))
    @@ ("Des. Grupo Completa" :> Cell(cells, 7))
    @@ ("Marca" :> Cell(cells, 12))
    @@ ("Cidade" :> Cell(cells, 13))
    @@ ("Estado" :> Cell(cells, 14))

\* line 118: if not cliente or not total
FatIncomplete(cliente, total) == cliente = <<>> \/ total = <<>>

\* lines 105-135, the body of the row's try: the items it appended and the
\* exception it ended with ("none": it ran to its end or to a continue)
FatTry(cells) ==
    LET cliente == Cell(cells, 1)
        total_str == Cell(cells, 9)
        vendedor == Cell(cells, 11)
        conv == converter_valor_brasileiro(total_str)
    IN  IF conv.raised THEN [items |-> <<>>, exc |-> conv.kind]
        ELSE IF FatIncomplete(cliente, conv.value) THEN [items |-> <<>>, exc |-> "none"]
        ELSE [items |-> <<FatItem(cells, conv.value)>>,
              exc |-> IF \/ HasSurrogate(Prefix(cliente, 35))
                         \/ HasSurrogate(conv.value)
                         \/ HasSurrogate(Prefix(vendedor, 30))
                      THEN "UnicodeEncodeError"
                      ELSE "none"]

\* line 137: except Exception
FatRowCatches(kind) == Catches({"Exception"}, kind)

\* lines 138-141, the row's except block: it prints the first 16 cells, and
\* so raises again when one of them cannot be printed
FatExceptRaises(cells) ==
    \E i \in 0..(Min(Len(cells), 16) - 1) : HasSurrogate(Cell(cells, i))

\* line 100: if len(cells) < 16
FatTooShort(cells) == Len(cells) < 16

\* lines 94-141, one iteration of the loop: the items it appends, and
\* whether an exception leaves the loop
FatRow(tr) ==
    IF ~Marked(tr.classes) \/ FatTooShort(tr.cells)
    THEN [items |-> <<>>, abort |-> FALSE, exc |-> "none"]
    ELSE LET t == FatTry(tr.cells) IN
         [items |-> t.items,
          abort |-> /\ t.exc # "none"
                    /\ (~FatRowCatches(t.exc) \/ FatExceptRaises(tr.cells)),
          exc |-> t.exc]

(* --------------------------- processar_pedidos ------------------------ *)

\* lines 277-284
Pedido(cells, total) ==
    ("Data" :> Cell(cells, 0))
    @@ ("Entrega Prod." :> IF Cell(cells, 1) # <<>> THEN Cell(cells, 1) ELSE <<>>)
    @@ ("Nr. Ped" :> Cell(cells, 2))
    @@ ("Cliente" :> Cell(cells, 4))
    @@ ("Vendedor" :> Cell(cells, 6))
    @@ ("Total" :> total)

\* line 258: if not nr_pedido or not cliente or not data_pedido
PedIncomplete(nr_pedido, cliente, data_pedido) ==
    nr_pedido = <<>> \/ cliente = <<>> \/ data_pedido = <<>>

\* line 267: if valor_float <= 0
PedNotPositive(total) == ~FloatPositive(total)

\* lines 236-287, the body of the row's try: the records it appended, what it
\* added to linhas_ignoradas, and the exception it ended with
PedTry(cells) ==
    LET data_pedido == Cell(cells, 0)
        nr_pedido == Cell(cells, 2)
        cliente == Cell(cells, 4)
        vendedor == Cell(cells, 6)
        total_str == Cell(cells, 10)
        conv == converter_valor_brasileiro(total_str)
        raises(e) == [items |-> <<>>, ignoradas |-> 0, exc |-> e]
        skips == [items |-> <<>>, ignoradas |-> 1, exc |-> "none"]
    IN  IF \/ HasSurrogate(nr_pedido)
           \/ HasSurrogate(Prefix(cliente, 40))
           \/ HasSurrogate(total_str)
        THEN raises("UnicodeEncodeError")
        ELSE IF conv.raised THEN raises(conv.kind)
        ELSE IF HasSurrogate(conv.value) THEN raises("UnicodeEncodeError")
        ELSE IF PedIncomplete(nr_pedido, cliente, data_pedido)
             THEN IF HasSurrogate(nr_pedido) \/ HasSurrogate(cliente)
                     \/ HasSurrogate(data_pedido)
                  THEN raises("UnicodeEncodeError")
                  ELSE skips
        ELSE IF ~FloatParses(conv.value) THEN skips
        ELSE IF PedNotPositive(conv.value) THEN skips
        ELSE [items |-> <<Pedido(cells, conv.value)>>,
              ignoradas |-> 0,
              exc |-> IF \/ HasSurrogate(nr_pedido)
                         \/ HasSurrogate(Prefix(cliente, 40))
                         \/ HasSurrogate(conv.value)
                         \/ HasSurrogate(Prefix(vendedor, 30))
                      THEN "UnicodeEncodeError"
                      ELSE "none"]

\* line 289: except (IndexError, AttributeError, ValueError)
PedRowCatches(kind) == Catches({"IndexError", "AttributeError", "ValueError"}, kind)

\* PedWrongCount as billing counts: any row with at least 12 cells passes
PedWrongCount_AtLeast(cells) == Len(cells) < 12

\* line 223: if len(cells) != 12
PedWrongCount(cells) == Len(cells) # 12

\* lines 228-230, outside the row's try: the first 15 cells are printed, each
\* cut to 60 characters
PedDebugRaises(cells) ==
    \E i \in 0..(Min(Len(cells), 15) - 1) : HasSurrogate(Prefix(Cell(cells, i), 60))

\* lines 206-295, one iteration of the loop: the records it appends, what it
\* adds to the two counters, and whether an exception leaves the loop
PedRow(tr) ==
    IF ~Marked(tr.classes)
    THEN [items |-> <<>>, processadas |-> 0, ignoradas |-> 0, abort |-> FALSE,
          exc |-> "none"]
    ELSE IF PedWrongCount(tr.cells)
    THEN [items |-> <<>>, processadas |-> 1, ignoradas |-> 1,
          abort |-> PedDebugRaises(tr.cells),
          exc |-> IF PedDebugRaises(tr.cells) THEN "UnicodeEncodeError" ELSE "none"]
    ELSE LET t == PedTry(tr.cells) IN
         [items |-> t.items,
          processadas |-> 1,
          ignoradas |-> t.ignoradas
                        + (IF t.exc # "none" /\ PedRowCatches(t.exc) THEN 1 ELSE 0),
          abort |-> t.exc # "none" /\ ~PedRowCatches(t.exc),
          exc |-> t.exc]

(* ----------------------------- state machine -------------------------- *)

NoRequest == [kind |-> "empty", rows |-> <<>>]

NoReturn == Returned(<<>>)

Init ==
    /\ op \in {"converter", "faturamento", "pedidos"}
    /\ valor_str \in (IF op = "converter" THEN Strings ELSE {<<>>})
    /\ request \in (CASE op = "converter" -> {NoRequest}
                      [] op = "faturamento" -> Requests(FatRows)
                      [] op = "pedidos" -> Requests(PedRows))
    /\ pc = "start"
    /\ ret = NoReturn
    /\ doc = <<>>
    /\ idx = 0
    /\ faturamento = <<>>
    /\ pedidos = <<>>
    /\ linhas_processadas = 0
    /\ linhas_ignoradas = 0
    /\ result = <<>>
    /\ propagated = FALSE

\* a call of converter_valor_brasileiro(valor_str)
Convert ==
    /\ op = "converter" /\ pc = "start"
    /\ ret' = converter_valor_brasileiro(valor_str)
    /\ pc' = "done"
    /\ UNCHANGED <<op, valor_str, request, doc, idx, faturamento, pedidos,
                   linhas_processadas, linhas_ignoradas, result, propagated>>

\* FatOuterCatches narrowed to one class of exception
FatOuterCatches_ValueError(kind) == Catches({"ValueError"}, kind)

\* line 146: except Exception
FatOuterCatches(kind) == Catches({"Exception"}, kind)

\* line 308: except Exception
PedOuterCatches(kind) == Catches({"Exception"}, kind)

\* an exception reaches the handler's outermost try: return [] when it is
\* caught, and let it out to the caller when it is not
Outer(caught) ==
    /\ pc' = "done"
    /\ result' = <<>>
    /\ propagated' = ~caught

\* return value
Return(value) ==
    /\ pc' = "done"
    /\ result' = value
    /\ UNCHANGED propagated

\* lines 78-90: decode the body, open the envelope, collapse the whitespace
FatReceive ==
    /\ op = "faturamento" /\ pc = "start"
    /\ IF request.kind = "bad_utf8" THEN Outer(FatOuterCatches("UnicodeDecodeError"))
       ELSE IF Falsy(Html(request)) THEN Return(<<>>)
       ELSE IF Html(request) # "str" THEN Outer(FatOuterCatches("TypeError"))
       ELSE pc' = "parse" /\ UNCHANGED <<result, propagated>>
    /\ UNCHANGED <<op, valor_str, ret, request, doc, idx, faturamento, pedidos,
                   linhas_processadas, linhas_ignoradas>>

\* line 91: BeautifulSoup(html, "html.parser"), which returns or raises
FatParse ==
    /\ op = "faturamento" /\ pc = "parse"
    /\ \E parsed \in BOOLEAN :
          IF parsed
          THEN doc' = request.rows /\ pc' = "loop" /\ UNCHANGED <<result, propagated>>
          ELSE Outer(FatOuterCatches("ParserError")) /\ UNCHANGED doc
    /\ UNCHANGED <<op, valor_str, ret, request, idx, faturamento, pedidos,
                   linhas_processadas, linhas_ignoradas>>

\* lines 94-141: one iteration of for tr in soup.find_all("tr")
FatLoop ==
    /\ op = "faturamento" /\ pc = "loop" /\ idx < Len(doc)
    /\ LET r == FatRow(doc[idx + 1]) IN
       IF r.abort
       THEN Outer(FatOuterCatches(r.exc)) /\ UNCHANGED <<idx, faturamento>>
       ELSE /\ faturamento' = faturamento \o r.items
            /\ idx' = idx + 1
            /\ UNCHANGED <<pc, result, propagated>>
    /\ UNCHANGED <<op, valor_str, ret, request, doc, pedidos,
                   linhas_processadas, linhas_ignoradas>>

\* lines 143-144: return faturamento
FatReturn ==
    /\ op = "faturamento" /\ pc = "loop" /\ idx = Len(doc)
    /\ Return(faturamento)
    /\ UNCHANGED <<op, valor_str, ret, request, doc, idx, faturamento, pedidos,
                   linhas_processadas, linhas_ignoradas>>

\* lines 175-188: decode the body, open the envelope, print len(html)
PedReceive ==
    /\ op = "pedidos" /\ pc = "start"
    /\ IF request.kind = "bad_utf8" THEN Outer(PedOuterCatches("UnicodeDecodeError"))
       ELSE IF Falsy(Html(request)) THEN Return(<<>>)
       ELSE IF Html(request) # "str" THEN Outer(PedOuterCatches("TypeError"))
       ELSE pc' = "parse" /\ UNCHANGED <<result, propagated>>
    /\ UNCHANGED <<op, valor_str, ret, request, doc, idx, faturamento, pedidos,
                   linhas_processadas, linhas_ignoradas>>

\* lines 192-201: BeautifulSoup(html, 'html5lib'), and on any exception
\* BeautifulSoup(html, 'html.parser'); each returns or raises
PedParse ==
    /\ op = "pedidos" /\ pc = "parse"
    /\ \E html5lib \in BOOLEAN, html_parser \in BOOLEAN :
          IF html5lib \/ html_parser
          THEN doc' = request.rows /\ pc' = "loop" /\ UNCHANGED <<result, propagated>>
          ELSE Outer(PedOuterCatches("ParserError")) /\ UNCHANGED doc
    /\ UNCHANGED <<op, valor_str, ret, request, idx, faturamento, pedidos,
                   linhas_processadas, linhas_ignoradas>>

\* lines 206-295: one iteration of for tr in soup.find_all('tr')
PedLoop ==
    /\ op = "pedidos" /\ pc = "loop" /\ idx < Len(doc)
    /\ LET r == PedRow(doc[idx + 1]) IN
       /\ linhas_processadas' = linhas_processadas + r.processadas
       /\ linhas_ignoradas' = linhas_ignoradas + r.ignoradas
       /\ pedidos' = pedidos \o r.items
       /\ IF r.abort
          THEN Outer(PedOuterCatches(r.exc)) /\ UNCHANGED idx
          ELSE idx' = idx + 1 /\ UNCHANGED <<pc, result, propagated>>
    /\ UNCHANGED <<op, valor_str, ret, request, doc, faturamento>>

\* lines 297-306: return pedidos
PedReturn ==
    /\ op = "pedidos" /\ pc = "loop" /\ idx = Len(doc)
    /\ Return(pedidos)
    /\ UNCHANGED <<op, valor_str, ret, request, doc, idx, faturamento, pedidos,
                   linhas_processadas, linhas_ignoradas>>

Next ==
    \/ Convert
    \/ FatReceive
    \/ FatParse
    \/ FatLoop
    \/ FatReturn
    \/ PedReceive
    \/ PedParse
    \/ PedLoop
    \/ PedReturn

Spec == Init /\ [][Next]_vars

(* --------------------- vocabulary of the properties ------------------- *)

AsciiDigits == {"0", "1", "2", "3", "4", "5", "6", "7", "8", "9"}

Count(s, c) == Cardinality({i \in 1..Len(s) : s[i] = c})

\* the input with everything but digits, '.' and ',' dropped
Cleaned(s) ==
    LET Kept(c) == IsDigit(c) \/ c \in {".", ","} IN SelectSeq(s, Kept)

Without(s, c) == LET Other(x) == x # c IN SelectSeq(s, Other)

\* every '.' removed, then every ',' turned into '.'
CommaForm(s) ==
    LET t == Without(s, ".") IN [i \in 1..Len(t) |-> IF t[i] = "," THEN "." ELSE t[i]]

\* the part of s after its last '.', the whole of s when it has none
LastSegment(s) ==
    LET dots == {i \in 1..Len(s) : s[i] = "."}
        last == IF dots = {} THEN 0 ELSE CHOOSE i \in dots : \A j \in dots : j <= i
    IN  SubSeq(s, last + 1, Len(s))

HasDigit(s) == \E i \in 1..Len(s) : IsDigit(s[i])

\* only ASCII digits and at most one '.': no ',', no thousands separator
Canonical(s) ==
    /\ \A i \in 1..Len(s) : s[i] \in AsciiDigits \cup {"."}
    /\ Count(s, ".") <= 1

ConverterDone == op = "converter" /\ pc = "done"

(* -------------------------------- C1 ----------------------------------- *)

\* C1: for every input string converter_valor_brasileiro returns without
\* raising, and what it returns is "0" or a canonical decimal string (ASCII
\* digits, at most one '.', no ',').
C1_ReturnsCanonical ==
    ConverterDone => /\ ~ret.raised
                     /\ ret.value = Zero \/ Canonical(ret.value)

(* -------------------------------- C4 ----------------------------------- *)

\* C4 as stated: for every input whose cleaned form contains ',', the result
\* is the cleaned form with every '.' removed and every ',' replaced by '.'.
C4_Original ==
    ConverterDone /\ Contains(Cleaned(valor_str), ",")
        => ret = Returned(CommaForm(Cleaned(valor_str)))

\* C4 amended: for every input whose cleaned form contains exactly one ','
\* and at least one digit, the result is the cleaned form with every '.'
\* removed and the ',' replaced by '.'.
C4_CommaForm ==
    ConverterDone /\ Count(Cleaned(valor_str), ",") = 1 /\ HasDigit(Cleaned(valor_str))
        => ret = Returned(CommaForm(Cleaned(valor_str)))

\* a thousands separator and a decimal comma were both present and converted
C4_Witness ==
    /\ ConverterDone
    /\ Count(Cleaned(valor_str), ",") = 1
    /\ Contains(Cleaned(valor_str), ".")
    /\ HasDigit(Cleaned(valor_str))
    /\ Cleaned(valor_str) # valor_str
    /\ ret = Returned(CommaForm(Cleaned(valor_str)))

(* -------------------------------- C5 ----------------------------------- *)

\* C5 as stated: for every comma-free input whose last '.'-separated segment
\* has length exactly 2, the result is the cleaned string unchanged.
C5_Original ==
    /\ ConverterDone
    /\ ~Contains(Cleaned(valor_str), ",")
    /\ Len(LastSegment(Cleaned(valor_str))) = 2
    => ret = Returned(Cleaned(valor_str))

\* C5 amended: for every comma-free input with at most one '.' whose last
\* '.'-separated segment has length exactly 2, the result is the cleaned
\* string unchanged, its '.' kept.
C5_PassThrough ==
    /\ ConverterDone
    /\ ~Contains(Cleaned(valor_str), ",")
    /\ Count(Cleaned(valor_str), ".") <= 1
    /\ Len(LastSegment(Cleaned(valor_str))) = 2
    => ret = Returned(Cleaned(valor_str))

\* a decimal such as "1.10" came back with its '.'
C5_Witness ==
    /\ ConverterDone
    /\ ~Contains(Cleaned(valor_str), ",")
    /\ Count(Cleaned(valor_str), ".") = 1
    /\ Len(LastSegment(Cleaned(valor_str))) = 2
    /\ Len(Cleaned(valor_str)) = 4
    /\ ret = Returned(Cleaned(valor_str))

(* -------------------------------- C6 ----------------------------------- *)

\* C6 as stated: for every comma-free input whose last '.'-separated segment
\* has a length other than 2, the result is the cleaned string with every
\* '.' removed.
C6_Original ==
    /\ ConverterDone
    /\ ~Contains(Cleaned(valor_str), ",")
    /\ Len(LastSegment(Cleaned(valor_str))) # 2
    => ret = Returned(Without(Cleaned(valor_str), "."))

\* C6 amended: for every comma-free input that holds at least one digit and
\* whose last '.'-separated segment has a length other than 2, the result is
\* the cleaned string with every '.' removed.
C6_ThousandsRemoved ==
    /\ ConverterDone
    /\ ~Contains(Cleaned(valor_str), ",")
    /\ HasDigit(Cleaned(valor_str))
    /\ Len(LastSegment(Cleaned(valor_str))) # 2
    => ret = Returned(Without(Cleaned(valor_str), "."))

\* a string such as "1.0" or "1.1.0" lost its '.'
C6_Witness ==
    /\ ConverterDone
    /\ ~Contains(Cleaned(valor_str), ",")
    /\ Contains(Cleaned(valor_str), ".")
    /\ HasDigit(Cleaned(valor_str))
    /\ Len(LastSegment(Cleaned(valor_str))) # 2
    /\ ret = Returned(Without(Cleaned(valor_str), "."))
    /\ ret.value # Cleaned(valor_str)

(* -------------------------------- C2 ----------------------------------- *)

\* the row the billing loop handles next
FatNext == doc[idx + 1]

\* C2: billing extraction emits no record for a marked row whose party name
\* (cell 1) or total (cell 9) is empty, nor for a marked row with fewer than
\* 16 cells, and it does not raise on such a row.
C2_BillingDrops ==
    [][(/\ op = "faturamento" /\ pc = "loop" /\ idx < Len(doc)
        /\ Marked(FatNext.classes)
        /\ \/ Len(FatNext.cells) < 16
           \/ Cell(FatNext.cells, 1) = <<>>
           \/ Cell(FatNext.cells, 9) = <<>>)
       => faturamento' = faturamento /\ ~propagated']_vars

(* -------------------------------- C3 ----------------------------------- *)

\* the records of the rows whose handling raised nothing, in document order
RECURSIVE FatOthers(_)
FatOthers(d) ==
    IF d = <<>> THEN <<>>
    ELSE (IF FatRow(Head(d)).exc = "none" THEN FatRow(Head(d)).items ELSE <<>>)
         \o FatOthers(Tail(d))

RECURSIVE PedOthers(_)
PedOthers(d) ==
    IF d = <<>> THEN <<>>
    ELSE (IF PedRow(Head(d)).exc = "none" THEN PedRow(Head(d)).items ELSE <<>>)
         \o PedOthers(Tail(d))

\* C3: in both extractors an exception raised while one marked row is handled
\* skips that row only: the records of the other rows, before and after it,
\* are what is returned.
C3_RowFailureIsolated ==
    pc = "done" /\ doc = request.rows
        => /\ op = "faturamento" => result = FatOthers(doc)
           /\ op = "pedidos" => result = PedOthers(doc)

(* -------------------------------- C7 ----------------------------------- *)

\* a marked row of exactly 12 cells with date, order number and client, whose
\* normalized total is a number greater than zero
PedQualifies(tr) ==
    /\ Marked(tr.classes)
    /\ Len(tr.cells) = 12
    /\ Cell(tr.cells, 0) # <<>> /\ Cell(tr.cells, 2) # <<>> /\ Cell(tr.cells, 4) # <<>>
    /\ LET total == converter_valor_brasileiro(Cell(tr.cells, 10)) IN
       ~total.raised /\ FloatParses(total.value) /\ FloatPositive(total.value)

PedFrom(rec, tr) ==
    /\ rec["Data"] = Cell(tr.cells, 0)
    /\ rec["Nr. Ped"] = Cell(tr.cells, 2)
    /\ rec["Cliente"] = Cell(tr.cells, 4)
    /\ rec["Total"] = converter_valor_brasileiro(Cell(tr.cells, 10)).value

PedOnlyQualifying(recs) ==
    /\ \A j \in 1..Len(recs) :
          \E i \in 1..idx : PedQualifies(doc[i]) /\ PedFrom(recs[j], doc[i])
    /\ Len(recs) <= Cardinality({i \in 1..idx : PedQualifies(doc[i])})

\* C7: every record order extraction holds or returns comes from a marked
\* row of exactly 12 cells with non-empty date, order number and client and a
\* normalized total greater than zero; no other row adds a record.
C7_OrdersOnlyFromValidRows ==
    op = "pedidos" => PedOnlyQualifying(pedidos) /\ PedOnlyQualifying(result)

\* one record returned from a document of two marked rows, the other of
\* which does not qualify
C7_Witness ==
    /\ op = "pedidos" /\ pc = "done"
    /\ Len(doc) = 2 /\ Len(result) = 1
    /\ \A i \in 1..2 : Marked(doc[i].classes)
    /\ \E i \in 1..2 : Len(doc[i].cells) # 12
    /\ \E i \in 1..2 : PedQualifies(doc[i])

(* -------------------------------- C8 ----------------------------------- *)

FatKeys ==
    {"Cod. Cli./For.", "Cliente/Fornecedor", "Data", "Total Item", "Vendedor",
     "Ref. Produto", "Des. Grupo Completa", "Marca", "Cidade", "Estado"}

\* the column each key is read from
FatColumn(key) ==
    CASE key = "Cod. Cli./For." -> 0
      [] key = "Cliente/Fornecedor" -> 1
      [] key = "Data" -> 2
      [] key = "Total Item" -> 9
      [] key = "Vendedor" -> 11
      [] key = "Ref. Produto" -> 5
      [] key = "Des. Grupo Completa" -> 7
      [] key = "Marca" -> 12
      [] key = "Cidade" -> 13
      [] key = "Estado" -> 14

FatExpectedItem(tr) ==
    [key \in FatKeys |->
        IF key = "Total Item"
        THEN converter_valor_brasileiro(Cell(tr.cells, 9)).value
        ELSE Cell(tr.cells, FatColumn(key))]

RECURSIVE FatExpected(_)
FatExpected(d) ==
    IF d = <<>> THEN <<>>
    ELSE (IF Marked(Head(d).classes) THEN <<FatExpectedItem(Head(d))>> ELSE <<>>)
         \o FatExpected(Tail(d))

\* C8: for a document whose marked rows all have at least 16 cells and
\* non-empty party and total texts, billing extraction returns one record per
\* marked row, in document order, each with the 10 keys read from cells
\* 0, 1, 2, 9 (normalized), 11, 5, 7, 12, 13, 14.
C8_BillingOneRecordPerRow ==
    /\ op = "faturamento" /\ pc = "done" /\ doc = request.rows
    /\ \A i \in 1..Len(doc) :
          Marked(doc[i].classes)
              => /\ Len(doc[i].cells) >= 16
                 /\ Cell(doc[i].cells, 1) # <<>>
                 /\ Cell(doc[i].cells, 9) # <<>>
    => result = FatExpected(doc)

(* -------------------------------- C9 ----------------------------------- *)

C10_CountersConsistent ==
    op = "pedidos" /\ pc = "loop"
        => linhas_processadas = Len(pedidos) + linhas_ignoradas

====
